---- MODULE Spec2Model ----
(***************************************************************************)
(* Control-flow recovery of ll2go: the restructure loop (locate a          *)
(* primitive, merge it, synthesize the statement, repeat) and the          *)
(* statement synthesizers of primitive.go.                                 *)
(***************************************************************************)
EXTENDS Integers, Sequences, FiniteSets, TLC

VARIABLES
    graph,     \* the CFG: [nodes, edges, entry]
    bbs,       \* the block map: name -> [name, stmts, term]
    pc,        \* "loop" | "done" | "error"
    err,       \* the error returned, "" when none
    body,      \* the statement list returned, <<>> when none
    iters,     \* successful iterations so far
    g0,        \* the CFG restructure was called with
    consumed,  \* names deleted from the block map so far
    last,      \* the last located primitive: [sub, m, members, newName, res]
    avail,     \* the subgraphs that had an isomorphism when it was located
    lifted     \* the last call of the lifter: [fn, in, out]

vars == <<graph, bbs, pc, err, body, iters, g0, consumed, last, avail, lifted>>

\* ------------------------------------------------------------------ bounds

\* Most two-way branches in a function drawn by Init.
MaxCond == 2

\* Most located primitives in the list handed to restructure.
MaxHprims == 2

\* The longest statement list handed to the expression expander.
MaxStmts == 3

\* The longest file handed to a fix, in statements.
MaxFile == 2

\* The largest value of a variable when a statement is evaluated.
MaxVal == 3

\* ------------------------------------------------------------------ data

Range(f) == {f[x] : x \in DOMAIN f}

Injective(f) == \A x, y \in DOMAIN f : f[x] = f[y] => x = y

\* Node names of the functions drawn by Init; the entry block is "n1".
RawNames == <<"n1", "n2", "n3", "n4">>

NodeSets == {{RawNames[i] : i \in 1..k} : k \in 1..Len(RawNames)}

\* Names the merger may give to a merged node.
PrimNames == {"p1", "p2", "p3"}

\* error kinds
ErrUnstructured == "unable to locate control flow primitive"
ErrMissingBlock == "unable to locate basic block"
ErrInvalidTerm == "invalid terminator instruction of last basic block"
ErrBrCond == "unable to parse conditional branch instruction"
ErrTargetTrue == "invalid target true branch"
ErrTargetFalse == "invalid target false branch"
ErrUnsupported == "control flow primitive not yet supported"
ErrNoNodePair == "unable to locate node pair for sub node"

\* A token of the IR, as the lexer returns it.
Tok(kind, val) == [kind |-> kind, val |-> val]

\* Terminators. A nil llvm.Value is NilTerm.
NilTerm == [kind |-> "nil", cond |-> Tok("", ""), t |-> "", f |-> ""]
Br(t) == [kind |-> "br", cond |-> Tok("", ""), t |-> t, f |-> ""]
CondBr(c, t, f) == [kind |-> "condbr", cond |-> c, t |-> t, f |-> f]

IsNil(term) == term.kind = "nil"

\* Statements. Expressions are token sequences.
Stmt(id, e) == [k |-> "stmt", id |-> id, cond |-> e, body |-> <<>>, els |-> <<>>]
Define(lhs, rhs) == [k |-> "define", id |-> lhs, cond |-> rhs, body |-> <<>>, els |-> <<>>]
Assign(lhs, rhs) == [k |-> "assign", id |-> lhs, cond |-> rhs, body |-> <<>>, els |-> <<>>]
IfStmt(c, b) == [k |-> "if", id |-> "", cond |-> c, body |-> b, els |-> <<>>]
IfElseStmt(c, b, e) == [k |-> "ifelse", id |-> "", cond |-> c, body |-> b, els |-> e]
ForStmt(c, b) == [k |-> "for", id |-> "", cond |-> c, body |-> b, els |-> <<>>]
BreakStmt == [k |-> "break", id |-> "", cond |-> <<>>, body |-> <<>>, els |-> <<>>]
ReturnStmt == [k |-> "return", id |-> "", cond |-> <<>>, body |-> <<>>, els |-> <<>>]

Ident(name) == <<name>>
Not(e) == <<"!", "(">> \o e \o <<")">>

Block(name, stmts, term) == [name |-> name, stmts |-> stmts, term |-> term]

NoPrim == Block("", <<>>, NilTerm)
Ok(prim) == [err |-> "", prim |-> prim]
Fail(e) == [err |-> e, prim |-> NoPrim]

\* ------------------------------------------------------------ instruction.go

\* getIdent: a Go identifier for an IR token; a local ID %42 becomes _42.
GetIdent(tok) ==
    IF tok.kind \in {"KwTrue", "KwFalse", "LocalVar"}
    THEN [err |-> "", e |-> Ident(tok.val)]
    ELSE IF tok.kind = "LocalID"
    THEN [err |-> "", e |-> Ident("_" \o tok.val)]
    ELSE [err |-> "token kind not yet implemented", e |-> <<>>]

\* The condition of getBrCond: only a two-way branch has the 10 tokens
\* "br i1 <cond>, label <t>, label <f>".
BrCondExpr(term) ==
    IF term.kind # "condbr"
    THEN [err |-> ErrBrCond, e |-> <<>>]
    ELSE IF term.cond.kind \in {"KwTrue", "KwFalse", "LocalVar", "LocalID"}
    THEN GetIdent(term.cond)
    ELSE IF term.cond.kind = "Int"
    THEN IF term.cond.val = "0" THEN [err |-> "", e |-> Ident("false")]
         ELSE IF term.cond.val = "1" THEN [err |-> "", e |-> Ident("true")]
         ELSE [err |-> "invalid integer value", e |-> <<>>]
    ELSE [err |-> "token kind not yet implemented", e |-> <<>>]

\* The two branch targets getBrCond returns beside the condition.
BrTargets(term) == [targetTrue |-> term.t, targetFalse |-> term.f]

\* getBrCond as primitive.go calls it: (cond, targetTrue, targetFalse, err).
GetBrCond(term) ==
    LET c == BrCondExpr(term)
    IN  IF c.err # ""
        THEN [err |-> c.err, cond |-> <<>>, targetTrue |-> "", targetFalse |-> ""]
        ELSE [err |-> "", cond |-> c.e,
              targetTrue |-> BrTargets(term).targetTrue,
              targetFalse |-> BrTargets(term).targetFalse]

\* The comparison predicates of the IR, as the lexer returns them.
PredToks ==
    {Tok("KwEq", "eq"), Tok("KwNe", "ne"),
     Tok("KwUgt", "ugt"), Tok("KwUge", "uge"), Tok("KwUlt", "ult"), Tok("KwUle", "ule"),
     Tok("KwSgt", "sgt"), Tok("KwSge", "sge"), Tok("KwSlt", "slt"), Tok("KwSle", "sle"),
     Tok("KwOeq", "oeq"), Tok("KwOgt", "ogt"), Tok("KwOge", "oge"), Tok("KwOlt", "olt"),
     Tok("KwOle", "ole"), Tok("KwOne", "one"), Tok("KwOrd", "ord"),
     Tok("KwUeq", "ueq"), Tok("KwUne", "une"), Tok("KwUno", "uno")}

\* The result of getCmpPred: a Go token and an error; token 0 is ILLEGAL.
CmpOk(op) == [err |-> "", op |-> op]
CmpFail(e) == [err |-> e, op |-> "ILLEGAL"]

\* getCmpPred that takes ord for an equality.
getCmpPredOrdEq(tokens) ==
    IF Len(tokens) < 4
    THEN CmpFail("unable to parse comparison instruction")
    ELSE LET pred == tokens[4]
         IN  CASE pred.kind \in {"KwEq", "KwOeq", "KwUeq", "KwOrd"} -> CmpOk("==")
               [] pred.kind \in {"KwNe", "KwOne", "KwUne"} -> CmpOk("!=")
               [] pred.kind \in {"KwUgt", "KwSgt", "KwOgt"} -> CmpOk(">")
               [] pred.kind \in {"KwUge", "KwSge", "KwOge"} -> CmpOk(">=")
               [] pred.kind \in {"KwUlt", "KwSlt", "KwOlt"} -> CmpOk("<")
               [] pred.kind \in {"KwUle", "KwSle", "KwOle"} -> CmpOk("<=")
               [] pred.kind = "KwUno" ->
                      CmpFail("comparison predicate uno not yet implemented")
               [] OTHER -> CmpFail("invalid token; expected comparison predicate")

\* getCmpPred: the Go token of the predicate of a comparison instruction
\* "<result> = icmp <pred> <type> <op1>, <op2>", its fourth token.
getCmpPred(tokens) ==
    IF Len(tokens) < 4
    THEN CmpFail("unable to parse comparison instruction")
    ELSE LET pred == tokens[4]
         IN  CASE pred.kind = "KwEq" -> CmpOk("==")
               [] pred.kind = "KwNe" -> CmpOk("!=")
               [] pred.kind = "KwUgt" -> CmpOk(">")
               [] pred.kind = "KwUge" -> CmpOk(">=")
               [] pred.kind = "KwUlt" -> CmpOk("<")
               [] pred.kind = "KwUle" -> CmpOk("<=")
               [] pred.kind = "KwSgt" -> CmpOk(">")
               [] pred.kind = "KwSge" -> CmpOk(">=")
               [] pred.kind = "KwSlt" -> CmpOk("<")
               [] pred.kind = "KwSle" -> CmpOk("<=")
               [] pred.kind = "KwOeq" -> CmpOk("==")
               [] pred.kind = "KwOgt" -> CmpOk(">")
               [] pred.kind = "KwOge" -> CmpOk(">=")
               [] pred.kind = "KwOlt" -> CmpOk("<")
               [] pred.kind = "KwOle" -> CmpOk("<=")
               [] pred.kind = "KwOne" -> CmpOk("!=")
               [] pred.kind = "KwOrd" ->
                      CmpFail("comparison predicate ord not yet implemented")
               [] pred.kind = "KwUeq" -> CmpOk("==")
               [] pred.kind = "KwUne" -> CmpOk("!=")
               [] pred.kind = "KwUno" ->
                      CmpFail("comparison predicate uno not yet implemented")
               [] OTHER -> CmpFail("invalid token; expected comparison predicate")

\* getResult: the identifier an assignment operation "%foo = ..." defines.
GetResult(tokens) ==
    IF Len(tokens) < 2
    THEN [err |-> "unable to locate result identifier", e |-> <<>>]
    ELSE IF tokens[2].kind # "Equal"
    THEN [err |-> "invalid assigment operation", e |-> <<>>]
    ELSE IF tokens[1].kind \in {"LocalVar", "LocalID"}
    THEN GetIdent(tokens[1])
    ELSE [err |-> "token kind not yet implemented", e |-> <<>>]

\* ------------------------------------------------------- expression expander

RECURSIVE StmtsUse(_, _)
\* Whether identifier t occurs in an expression of the statements.
StmtsUse(stmts, t) ==
    \E i \in 1..Len(stmts) :
        \/ \E j \in 1..Len(stmts[i].cond) : stmts[i].cond[j] = t
        \/ StmtsUse(stmts[i].body, t)
        \/ StmtsUse(stmts[i].els, t)

\* Indexes of the define-assignments "t := rhs" in stmts.
DefsOf(stmts, t) == {i \in 1..Len(stmts) : stmts[i].k = "define" /\ stmts[i].id = t}

Max(S) == CHOOSE x \in S : \A y \in S : y <= x

RemoveAt(s, i) == SubSeq(s, 1, i - 1) \o SubSeq(s, i + 1, Len(s))

\* expand that folds the first definition of the condition identifier.
ExpandFirstDef(stmts, cond) ==
    IF Len(cond) # 1 \/ DefsOf(stmts, cond[1]) = {}
    THEN [cond |-> cond, stmts |-> stmts]
    ELSE LET i == CHOOSE x \in DefsOf(stmts, cond[1]) :
                      \A y \in DefsOf(stmts, cond[1]) : x <= y
         IN  IF StmtsUse(SubSeq(stmts, i + 1, Len(stmts)), cond[1])
             THEN [cond |-> cond, stmts |-> stmts]
             ELSE [cond |-> stmts[i].cond, stmts |-> RemoveAt(stmts, i)]

\* expand: fold the last definition of the condition identifier into the
\* condition. Returns the condition and the statements left in the block.
Expand(stmts, cond) ==
    IF Len(cond) # 1 \/ DefsOf(stmts, cond[1]) = {}
    THEN [cond |-> cond, stmts |-> stmts]
    ELSE LET i == Max(DefsOf(stmts, cond[1]))
         IN  IF StmtsUse(SubSeq(stmts, i + 1, Len(stmts)), cond[1])
             THEN [cond |-> cond, stmts |-> stmts]
             ELSE [cond |-> stmts[i].cond, stmts |-> RemoveAt(stmts, i)]


\* -------------------------------------------------------------- primitive.go

\* The "Locate graph nodes" prologue of every synthesizer: the first error
\* among a sub node without node pair and a node pair without basic block.
LocateNodes(m, primBBs, keys) ==
    IF \E k \in keys : k \notin DOMAIN m THEN ErrNoNodePair
    ELSE IF \E k \in keys : m[k] \notin DOMAIN primBBs THEN ErrMissingBlock
    ELSE ""

\* createListPrim that puts the statements of the exit block first.
createListPrimExitFirst(m, primBBs, newName) ==
    IF LocateNodes(m, primBBs, {"A", "B"}) # ""
    THEN Fail(LocateNodes(m, primBBs, {"A", "B"}))
    ELSE LET bbEntry == primBBs[m["A"]]
             bbExit == primBBs[m["B"]]
         IN  Ok(Block(newName, bbExit.stmts \o bbEntry.stmts, bbExit.term))

\* createListPrim that keeps the terminator of the entry block.
createListPrimEntryTerm(m, primBBs, newName) ==
    IF LocateNodes(m, primBBs, {"A", "B"}) # ""
    THEN Fail(LocateNodes(m, primBBs, {"A", "B"}))
    ELSE LET bbEntry == primBBs[m["A"]]
             bbExit == primBBs[m["B"]]
         IN  Ok(Block(newName, bbEntry.stmts \o bbExit.stmts, bbEntry.term))

\* createListPrim:  A; B
createListPrim(m, primBBs, newName) ==
    IF LocateNodes(m, primBBs, {"A", "B"}) # ""
    THEN Fail(LocateNodes(m, primBBs, {"A", "B"}))
    ELSE LET bbEntry == primBBs[m["A"]]
             bbExit == primBBs[m["B"]]
         IN  Ok(Block(newName, bbEntry.stmts \o bbExit.stmts, bbExit.term))

\* createIfPrim:  A; if A_cond { B }; C
createIfPrim(m, primBBs, newName) ==
    IF LocateNodes(m, primBBs, {"A", "B", "C"}) # ""
    THEN Fail(LocateNodes(m, primBBs, {"A", "B", "C"}))
    ELSE LET bbCond == primBBs[m["A"]]
             bbBody == primBBs[m["B"]]
             bbExit == primBBs[m["C"]]
             br == GetBrCond(bbCond.term)
         IN  IF br.err # "" THEN Fail(br.err)
             ELSE Ok(Block(newName,
                           bbCond.stmts \o <<IfStmt(br.cond, bbBody.stmts)>>
                               \o bbExit.stmts,
                           bbExit.term))

\* createIfElsePrim that verifies the targets but does not swap B and C.
createIfElsePrimNoSwap(m, primBBs, newName) ==
    IF \E k \in {"A", "B", "C", "D"} : k \notin DOMAIN m THEN Fail(ErrNoNodePair)
    ELSE IF m["A"] \notin DOMAIN primBBs THEN Fail(ErrMissingBlock)
    ELSE LET bbCond == primBBs[m["A"]]
             br == GetBrCond(bbCond.term)
         IN  IF br.err # "" THEN Fail(br.err)
             ELSE IF br.targetTrue # m["B"] /\ br.targetTrue # m["C"]
             THEN Fail(ErrTargetTrue)
             ELSE IF br.targetFalse # m["B"] /\ br.targetFalse # m["C"]
             THEN Fail(ErrTargetFalse)
             ELSE IF \E n \in {m["B"], m["C"], m["D"]} : n \notin DOMAIN primBBs
             THEN Fail(ErrMissingBlock)
             ELSE Ok(Block(newName,
                           bbCond.stmts
                               \o <<IfElseStmt(br.cond, primBBs[m["B"]].stmts,
                                               primBBs[m["C"]].stmts)>>
                               \o primBBs[m["D"]].stmts,
                           primBBs[m["D"]].term))

\* createIfElsePrim that does not compare the branch targets with B and C.
createIfElsePrimAnyTarget(m, primBBs, newName) ==
    IF \E k \in {"A", "B", "C", "D"} : k \notin DOMAIN m THEN Fail(ErrNoNodePair)
    ELSE IF m["A"] \notin DOMAIN primBBs THEN Fail(ErrMissingBlock)
    ELSE LET bbCond == primBBs[m["A"]]
             br == GetBrCond(bbCond.term)
             nameB == br.targetTrue
             nameC == br.targetFalse
         IN  IF br.err # "" THEN Fail(br.err)
             ELSE IF \E n \in {nameB, nameC, m["D"]} : n \notin DOMAIN primBBs
             THEN Fail(ErrMissingBlock)
             ELSE LET bbBody1 == primBBs[nameB]
                      bbBody2 == primBBs[nameC]
                      bbExit == primBBs[m["D"]]
                  IN  Ok(Block(newName,
                               bbCond.stmts
                                   \o <<IfElseStmt(br.cond, bbBody1.stmts, bbBody2.stmts)>>
                                   \o bbExit.stmts,
                               bbExit.term))

\* createIfElsePrim:  A; if A_cond { B } else { C }; D, with B and C renamed
\* to the true and the false target of A's terminator.
createIfElsePrim(m, primBBs, newName) ==
    IF \E k \in {"A", "B", "C", "D"} : k \notin DOMAIN m THEN Fail(ErrNoNodePair)
    ELSE IF m["A"] \notin DOMAIN primBBs THEN Fail(ErrMissingBlock)
    ELSE LET bbCond == primBBs[m["A"]]
             br == GetBrCond(bbCond.term)
             nameB == br.targetTrue
             nameC == br.targetFalse
         IN  IF br.err # "" THEN Fail(br.err)
             ELSE IF br.targetTrue # m["B"] /\ br.targetTrue # m["C"]
             THEN Fail(ErrTargetTrue)
             ELSE IF br.targetFalse # m["B"] /\ br.targetFalse # m["C"]
             THEN Fail(ErrTargetFalse)
             ELSE IF \E n \in {nameB, nameC, m["D"]} : n \notin DOMAIN primBBs
             THEN Fail(ErrMissingBlock)
             ELSE LET bbBody1 == primBBs[nameB]
                      bbBody2 == primBBs[nameC]
                      bbExit == primBBs[m["D"]]
                  IN  Ok(Block(newName,
                               bbCond.stmts
                                   \o <<IfElseStmt(br.cond, bbBody1.stmts, bbBody2.stmts)>>
                                   \o bbExit.stmts,
                               bbExit.term))

\* createPreLoopPrim of the earlier draft: the break guard is not negated.
createPreLoopPrimNoNegate(m, primBBs, newName) ==
    IF LocateNodes(m, primBBs, {"A", "B", "C"}) # ""
    THEN Fail(LocateNodes(m, primBBs, {"A", "B", "C"}))
    ELSE LET bbCond == primBBs[m["A"]]
             bbBody == primBBs[m["B"]]
             bbExit == primBBs[m["C"]]
             br == GetBrCond(bbCond.term)
             ex == Expand(bbCond.stmts, br.cond)
         IN  IF br.err # "" THEN Fail(br.err)
             ELSE IF Len(ex.stmts) # 0
             THEN Ok(Block(newName,
                           <<ForStmt(<<>>,
                                     ex.stmts \o <<IfStmt(ex.cond, <<BreakStmt>>)>>
                                         \o bbBody.stmts)>>
                               \o bbExit.stmts,
                           bbExit.term))
             ELSE Ok(Block(newName,
                           <<ForStmt(ex.cond, bbBody.stmts)>> \o bbExit.stmts,
                           bbExit.term))

\* createPreLoopPrim:  for A_cond { B }; C  when A has no statement left after
\* the expansion of the condition, else  for { A; if !A_cond { break }; B }; C
createPreLoopPrim(m, primBBs, newName) ==
    IF LocateNodes(m, primBBs, {"A", "B", "C"}) # ""
    THEN Fail(LocateNodes(m, primBBs, {"A", "B", "C"}))
    ELSE LET bbCond == primBBs[m["A"]]
             bbBody == primBBs[m["B"]]
             bbExit == primBBs[m["C"]]
             br == GetBrCond(bbCond.term)
             ex == Expand(bbCond.stmts, br.cond)
         IN  IF br.err # "" THEN Fail(br.err)
             ELSE IF Len(ex.stmts) # 0
             THEN Ok(Block(newName,
                           <<ForStmt(<<>>,
                                     ex.stmts \o <<IfStmt(Not(ex.cond), <<BreakStmt>>)>>
                                         \o bbBody.stmts)>>
                               \o bbExit.stmts,
                           bbExit.term))
             ELSE Ok(Block(newName,
                           <<ForStmt(ex.cond, bbBody.stmts)>> \o bbExit.stmts,
                           bbExit.term))

\* createPostLoopPrim of the earlier draft: the break guard is not negated.
createPostLoopPrimNoNegate(m, primBBs, newName) ==
    IF LocateNodes(m, primBBs, {"A", "B"}) # ""
    THEN Fail(LocateNodes(m, primBBs, {"A", "B"}))
    ELSE LET bbBody == primBBs[m["A"]]
             bbExit == primBBs[m["B"]]
             br == GetBrCond(bbBody.term)
         IN  IF br.err # "" THEN Fail(br.err)
             ELSE Ok(Block(newName,
                           <<ForStmt(<<>>,
                                     bbBody.stmts
                                         \o <<IfStmt(br.cond, <<BreakStmt>>)>>)>>
                               \o bbExit.stmts,
                           bbExit.term))

\* createPostLoopPrim:  for { A; if !A_cond { break } }; B
createPostLoopPrim(m, primBBs, newName) ==
    IF LocateNodes(m, primBBs, {"A", "B"}) # ""
    THEN Fail(LocateNodes(m, primBBs, {"A", "B"}))
    ELSE LET bbBody == primBBs[m["A"]]
             bbExit == primBBs[m["B"]]
             br == GetBrCond(bbBody.term)
         IN  IF br.err # "" THEN Fail(br.err)
             ELSE Ok(Block(newName,
                           <<ForStmt(<<>>,
                                     bbBody.stmts
                                         \o <<IfStmt(Not(br.cond), <<BreakStmt>>)>>)>>
                               \o bbExit.stmts,
                           bbExit.term))

\* createPrim: the synthesizer of the located primitive.
createPrim(subName, m, primBBs, newName) ==
    CASE subName = "if" -> createIfPrim(m, primBBs, newName)
      [] subName = "if_else" -> createIfElsePrim(m, primBBs, newName)
      [] subName = "if_return" -> createIfPrim(m, primBBs, newName)
      [] subName = "list" -> createListPrim(m, primBBs, newName)
      [] subName = "post_loop" -> createPostLoopPrim(m, primBBs, newName)
      [] subName = "pre_loop" -> createPreLoopPrim(m, primBBs, newName)
      [] OTHER -> Fail(ErrUnsupported)


\* ------------------------------------------------------- primitive catalog

Edge(u, v, l) == [from |-> u, to |-> v, label |-> l]

\* Contents of "list.dot"
SubList ==
    [name |-> "list", nodes |-> {"A", "B"}, entry |-> "A", exit |-> "B",
     edges |-> {Edge("A", "B", "")}, swap |-> {}]

\* Contents of "if.dot"
SubIf ==
    [name |-> "if", nodes |-> {"A", "B", "C"}, entry |-> "A", exit |-> "C",
     edges |-> {Edge("A", "B", "true"), Edge("A", "C", "false"), Edge("B", "C", "")},
     swap |-> {}]

\* Contents of "if_else.dot"; its body nodes B and C are indistinguishable at
\* the graph level.
SubIfElse ==
    [name |-> "if_else", nodes |-> {"A", "B", "C", "D"}, entry |-> "A", exit |-> "D",
     edges |-> {Edge("A", "B", "true"), Edge("A", "C", "false"),
                Edge("B", "D", ""), Edge("C", "D", "")},
     swap |-> {"B", "C"}]

\* Contents of "pre_loop.dot"
SubPreLoop ==
    [name |-> "pre_loop", nodes |-> {"A", "B", "C"}, entry |-> "A", exit |-> "C",
     edges |-> {Edge("A", "B", "true"), Edge("B", "A", ""), Edge("A", "C", "false")},
     swap |-> {}]

\* Contents of "post_loop.dot"
SubPostLoop ==
    [name |-> "post_loop", nodes |-> {"A", "B"}, entry |-> "A", exit |-> "B",
     edges |-> {Edge("A", "A", "true"), Edge("A", "B", "false")}, swap |-> {}]

\* "if_return.dot": B returns and has no successor.
SubIfReturn ==
    [name |-> "if_return", nodes |-> {"A", "B", "C"}, entry |-> "A", exit |-> "C",
     edges |-> {Edge("A", "B", ""), Edge("A", "C", "")}, swap |-> {}]

\* subs in the order of the earlier draft, list first.
subsListFirst == <<SubList, SubIf, SubIfElse, SubPreLoop, SubPostLoop, SubIfReturn>>

\* subNames with subs: the ordered list of control flow primitives.
subs == <<SubIf, SubIfElse, SubPreLoop, SubPostLoop, SubIfReturn, SubList>>

\* ------------------------------------------------------------ iso.Search

Succs(g, n) == {e.to : e \in {x \in g.edges : x.from = n}}
Preds(g, n) == {e.from : e \in {x \in g.edges : x.to = n}}

\* Every edge of sub has an edge of g between the images, with an equal
\* label when the edge of sub is labeled.
EdgesMatch(g, sub, m) ==
    \A e \in sub.edges :
        \E x \in g.edges :
            /\ x.from = m[e.from]
            /\ x.to = m[e.to]
            /\ (e.label = "" \/ x.label = e.label)

\* m with the images of sub's interchangeable body nodes swapped.
Swapped(sub, m) ==
    [k \in DOMAIN m |->
        IF k \in sub.swap THEN m[CHOOSE o \in sub.swap : o # k] ELSE m[k]]

\* The images of every node but the entry have only the predecessors sub
\* gives them, and of every node but the exit only the successors.
DegreesMatch(g, sub, m) ==
    \A k \in sub.nodes :
        /\ k # sub.entry =>
               Preds(g, m[k]) = {m[p] : p \in Preds(sub, k)}
        /\ k # sub.exit =>
               Succs(g, m[k]) = {m[q] : q \in Succs(sub, k)}

\* Isomorphisms that does not look at the edges around the matched nodes.
IsomorphismsAnyDegree(g, sub) ==
    {m \in [sub.nodes -> g.nodes] :
        /\ Injective(m)
        /\ \/ EdgesMatch(g, sub, m)
           \/ sub.swap # {} /\ EdgesMatch(g, sub, Swapped(sub, m))}

\* The isomorphisms of sub in g.
Isomorphisms(g, sub) ==
    {m \in [sub.nodes -> g.nodes] :
        /\ Injective(m)
        /\ DegreesMatch(g, sub, m)
        /\ \/ EdgesMatch(g, sub, m)
           \/ sub.swap # {} /\ EdgesMatch(g, sub, Swapped(sub, m))}

\* ------------------------------------------------------------ merge.Merge

\* UniqNames that does not look at the graph: a node name may be given again.
UniqNamesAny(g) == PrimNames \cup g.nodes

\* The names a merged node may get: unique within the graph.
UniqNames(g) == PrimNames \ g.nodes

\* Merge that forgets the labels of the edges it rewires.
MergeUnlabeled(g, m, sub, newName) ==
    LET matched == Range(m)
        kept == {e \in g.edges : e.from \notin matched /\ e.to \notin matched}
        inc == {Edge(e.from, newName, "") :
                   e \in {x \in g.edges : x.from \notin matched /\ x.to \in matched}}
        out == {Edge(newName, e.to, "") :
                   e \in {x \in g.edges : x.from \in matched /\ x.to \notin matched}}
    IN  [nodes |-> (g.nodes \ matched) \cup {newName},
         edges |-> kept \cup inc \cup out,
         entry |-> IF g.entry \in matched THEN newName ELSE g.entry]

\* The graph with the nodes of the isomorphism replaced by node newName.
Merge(g, m, sub, newName) ==
    LET matched == Range(m)
        kept == {e \in g.edges : e.from \notin matched /\ e.to \notin matched}
        inc == {Edge(e.from, newName, e.label) :
                   e \in {x \in g.edges : x.from \notin matched /\ x.to \in matched}}
        out == {Edge(newName, e.to, e.label) :
                   e \in {x \in g.edges : x.from \in matched /\ x.to \notin matched}}
    IN  [nodes |-> (g.nodes \ matched) \cup {newName},
         edges |-> kept \cup inc \cup out,
         entry |-> IF g.entry \in matched THEN newName ELSE g.entry]


\* ------------------------------------------------- the functions of Init

Entry == RawNames[1]

StmtModes == {"plain", "cond_only"}

\* The IR condition of the two-way branch ending block n.
CondTok(mode, n) ==
    CASE mode = "plain" -> Tok("LocalVar", "c_" \o n)
      [] mode = "empty_id" -> Tok("LocalID", n)
      [] mode = "undef" -> Tok("KwUndef", "undef")
      [] OTHER -> Tok("LocalVar", "t_" \o n)

Cmp(n) == <<"i_" \o n, "<", "10">>

\* The statements of block n as parseBasicBlock lifts them; a ret is lifted
\* to a return statement and leaves a nil terminator.
BlockStmts(mode, n, kind) ==
    IF kind = "condbr"
    THEN CASE mode \in {"plain", "undef"} -> <<Stmt("s_" \o n, <<>>)>>
           [] mode = "cond_only" -> <<Define("t_" \o n, Cmp(n))>>
           [] mode = "stmt_cond" -> <<Stmt("s_" \o n, <<>>), Define("t_" \o n, Cmp(n))>>
           [] mode = "cond_used" -> <<Define("t_" \o n, Cmp(n)), Stmt("s_" \o n, <<"t_" \o n>>)>>
           [] OTHER -> <<>>
    ELSE (IF mode = "empty_id" THEN <<>> ELSE <<Stmt("s_" \o n, <<>>)>>)
         \o (IF kind = "nil" THEN <<ReturnStmt>> ELSE <<>>)

\* The edges ll2dot draws for a terminator.
TermEdges(n, term) ==
    CASE term.kind = "br" -> {Edge(n, term.t, "")}
      [] term.kind = "condbr" -> {Edge(n, term.t, "true"), Edge(n, term.f, "false")}
      [] OTHER -> {}

RECURSIVE ReachFrom(_, _)
ReachFrom(edges, S) ==
    LET T == S \cup {e.to : e \in {x \in edges : x.from \in S}}
    IN  IF T = S THEN S ELSE ReachFrom(edges, T)

\* The terminators of a function with blocks N: the entry block has no
\* predecessor and every block is reachable from it.
Functions(N) ==
    {tm \in [N -> {NilTerm} \cup {Br(t) : t \in N \ {Entry}}
                  \cup {CondBr(Tok("", ""), t, f) : t, f \in N \ {Entry}}] :
        /\ \A n \in N : tm[n].kind = "condbr" => tm[n].t # tm[n].f
        /\ Cardinality({n \in N : tm[n].kind = "condbr"}) <= MaxCond
        /\ ReachFrom(UNION {TermEdges(n, tm[n]) : n \in N}, {Entry}) = N}

Restrict(f, S) == [x \in S |-> f[x]]

\* No call of the lifter yet.
NoCall == [fn |-> "", in |-> <<>>, out |-> <<>>]

NoLast == [sub |-> "", m |-> <<>>, members |-> <<>>, newName |-> "", res |-> Fail("")]

Init ==
    \E N \in NodeSets, mode \in StmtModes :
        \E tm \in Functions(N) :
            /\ graph = [nodes |-> N,
                        edges |-> UNION {TermEdges(n, tm[n]) : n \in N},
                        entry |-> Entry]
            /\ bbs = [n \in N |->
                         Block(n, BlockStmts(mode, n, tm[n].kind),
                               IF tm[n].kind = "condbr"
                               THEN CondBr(CondTok(mode, n), tm[n].t, tm[n].f)
                               ELSE tm[n])]
            /\ g0 = graph
            /\ pc = "loop"
            /\ err = ""
            /\ body = <<>>
            /\ iters = 0
            /\ consumed = {}
            /\ last = NoLast
            /\ avail = {}
            /\ lifted = NoCall

\* ------------------------------------------------------------ restructure

RECURSIVE SearchFrom(_, _)
\* The subgraph locatePrim settles on: the first of subs, from index i on,
\* with an isomorphism in the graph; 0 when there is none.
SearchFrom(g, i) ==
    IF i > Len(subs) THEN 0
    ELSE IF Isomorphisms(g, subs[i]) # {} THEN i
    ELSE SearchFrom(g, i + 1)

FirstSub(g) == SearchFrom(g, 1)

\* The loop over the node pairs collects the blocks of the primitive and
\* deletes them from the block map; it stops at the first name without block.
CollectOk(m, b) == Injective(m) /\ Range(m) \subseteq DOMAIN b

\* The names deleted by a loop that stops at a name without block.
DeletedOnFail(m, b) ==
    {Range(Restrict(m, K)) : K \in
        {K \in SUBSET DOMAIN m :
            /\ CollectOk(Restrict(m, K), b)
            /\ \E k \in DOMAIN m \ K :
                   m[k] \notin DOMAIN b \/ m[k] \in Range(Restrict(m, K))}}

\* DeleteMembers without the delete: the member blocks stay in the block map.
DeleteMembersNone(b, m) == b

\* delete(bbs, gname) for every node of the primitive.
DeleteMembers(b, m) == Restrict(b, DOMAIN b \ Range(m))

\* StorePrim that drops the primitive instead of storing it.
StorePrimDrop(b, prim) == b

\* bbs[prim.Name()] = prim
StorePrim(b, prim) ==
    [n \in DOMAIN b \cup {prim.name} |-> IF n = prim.name THEN prim ELSE b[n]]

\* One primitive applied to the block map: the member blocks are deleted and
\* the synthesized primitive is stored under its name.
ApplyPrim(subName, m, newName) ==
    IF CollectOk(m, bbs)
    THEN LET primBBs == Restrict(bbs, Range(m))
             res == createPrim(subName, m, primBBs, newName)
             left == DeleteMembers(bbs, m)
         IN  /\ last' = [sub |-> subName, m |-> m, members |-> primBBs,
                         newName |-> newName, res |-> res]
             /\ consumed' = consumed \cup Range(m)
             /\ IF res.err # ""
                THEN /\ bbs' = left
                     /\ pc' = "error"
                     /\ err' = res.err
                     /\ iters' = iters
                ELSE /\ bbs' = StorePrim(left, res.prim)
                     /\ pc' = "loop"
                     /\ err' = ""
                     /\ iters' = iters + 1
    ELSE \E D \in DeletedOnFail(m, bbs) :
             /\ last' = [sub |-> subName, m |-> m, members |-> Restrict(bbs, D),
                         newName |-> newName, res |-> Fail(ErrMissingBlock)]
             /\ consumed' = consumed \cup D
             /\ bbs' = Restrict(bbs, DOMAIN bbs \ D)
             /\ pc' = "error"
             /\ err' = ErrMissingBlock
             /\ iters' = iters

\* An iteration of restructure in which locatePrim locates a primitive.
LocatePrim ==
    /\ pc = "loop"
    /\ Cardinality(DOMAIN bbs) > 1
    /\ FirstSub(graph) # 0
    /\ LET sub == subs[FirstSub(graph)]
       IN  \E m \in Isomorphisms(graph, sub), newName \in UniqNames(graph) :
               /\ graph' = Merge(graph, m, sub, newName)
               /\ ApplyPrim(sub.name, m, newName)
    /\ avail' = {subs[i].name : i \in {j \in 1..Len(subs) : Isomorphisms(graph, subs[j]) # {}}}
    /\ UNCHANGED <<body, g0, lifted>>

\* Unstructured that leaves the loop and returns a remaining block.
UnstructuredReturnsBlock ==
    /\ pc = "loop"
    /\ Cardinality(DOMAIN bbs) > 1
    /\ FirstSub(graph) = 0
    /\ pc' = "done"
    /\ err' = ""
    /\ \E n \in DOMAIN bbs : body' = bbs[n].stmts
    /\ UNCHANGED <<graph, bbs, iters, g0, consumed, last, avail, lifted>>

\* An iteration in which no subgraph of subs has an isomorphism.
Unstructured ==
    /\ pc = "loop"
    /\ Cardinality(DOMAIN bbs) > 1
    /\ FirstSub(graph) = 0
    /\ pc' = "error"
    /\ err' = ErrUnstructured
    /\ UNCHANGED <<graph, bbs, body, iters, g0, consumed, last, avail, lifted>>

\* Finish without the check of the last terminator.
FinishUnchecked ==
    /\ pc = "loop"
    /\ Cardinality(DOMAIN bbs) <= 1
    /\ IF DOMAIN bbs = {}
       THEN pc' = "error" /\ err' = ErrMissingBlock /\ body' = <<>>
       ELSE pc' = "done" /\ err' = "" /\ body' = bbs[CHOOSE n \in DOMAIN bbs : TRUE].stmts
    /\ UNCHANGED <<graph, bbs, iters, g0, consumed, last, avail, lifted>>

\* After the loop: the body of the function is the last basic block, whose
\* terminator must be nil.
Finish ==
    /\ pc = "loop"
    /\ Cardinality(DOMAIN bbs) <= 1
    /\ IF DOMAIN bbs = {}
       THEN pc' = "error" /\ err' = ErrMissingBlock /\ body' = <<>>
       ELSE LET bb == bbs[CHOOSE n \in DOMAIN bbs : TRUE]
            IN  IF ~IsNil(bb.term)
                THEN pc' = "error" /\ err' = ErrInvalidTerm /\ body' = <<>>
                ELSE pc' = "done" /\ err' = "" /\ body' = bb.stmts
    /\ UNCHANGED <<graph, bbs, iters, g0, consumed, last, avail, lifted>>

Next == LocatePrim \/ Unstructured \/ Finish

Spec == Init /\ [][Next]_vars

\* Functions whose two-way branches test undef, a condition getBrCond does
\* not decode.
InitU ==
    \E N \in NodeSets :
        \E tm \in Functions(N) :
            /\ graph = [nodes |-> N,
                        edges |-> UNION {TermEdges(n, tm[n]) : n \in N},
                        entry |-> Entry]
            /\ bbs = [n \in N |->
                         Block(n, BlockStmts("undef", n, tm[n].kind),
                               IF tm[n].kind = "condbr"
                               THEN CondBr(CondTok("undef", n), tm[n].t, tm[n].f)
                               ELSE tm[n])]
            /\ g0 = graph
            /\ pc = "loop"
            /\ err = ""
            /\ body = <<>>
            /\ iters = 0
            /\ consumed = {}
            /\ last = NoLast
            /\ avail = {}
            /\ lifted = NoCall

SpecU == InitU /\ [][Next]_vars



\* ------------------------------------- restructure over located primitives

\* The modes of the functions handed to restructure with a list of located
\* primitives.
HStmtModes == {"plain", "cond_only", "stmt_cond", "cond_used", "empty_id"}

\* Their terminators: n1 branches on a condition to n2 and n3, or to n2 with
\* both targets.
HFunctions ==
    {[n1 |-> t1, n2 |-> t2, n3 |-> t3, n4 |-> NilTerm] :
        t1 \in {CondBr(Tok("", ""), "n2", "n3"), CondBr(Tok("", ""), "n2", "n2")},
        t2 \in {Br("n4"), CondBr(Tok("", ""), "n2", "n4")},
        t3 \in {Br("n4"), NilTerm}}

\* A name of a located primitive that is no block of the function.
Stray == "zz"

\* The located primitives restructure may be handed for block map b:
\* [Prim, Nodes, Node] as decoded from the primitives file. The node pairs
\* name distinct nodes, blocks of b or the stray name.
Hprims(b) ==
    UNION {{[Prim |-> subs[i].name, Nodes |-> m, Node |-> nn] :
               m \in {x \in [subs[i].nodes -> DOMAIN b \cup {Stray}] : Injective(x)},
               nn \in {CHOOSE p \in PrimNames \ DOMAIN b : TRUE}} :
           i \in 1..Len(subs)}

InitH ==
    \E mode \in HStmtModes, tm \in HFunctions :
        /\ graph = [nodes |-> DOMAIN tm,
                    edges |-> UNION {TermEdges(n, tm[n]) : n \in DOMAIN tm},
                    entry |-> Entry]
        /\ bbs = [n \in DOMAIN tm |->
                     Block(n, BlockStmts(mode, n, tm[n].kind),
                           IF tm[n].kind = "condbr"
                           THEN CondBr(CondTok(mode, n), tm[n].t, tm[n].f)
                           ELSE tm[n])]
        /\ g0 = graph
        /\ pc = "loop"
        /\ err = ""
        /\ body = <<>>
        /\ iters = 0
        /\ consumed = {}
        /\ last = NoLast
        /\ avail = {}
        /\ lifted = NoCall

\* One located primitive of hprims applied.
ApplyHprim ==
    /\ pc = "loop"
    /\ iters < MaxHprims
    /\ \E h \in Hprims(bbs) : ApplyPrim(h.Prim, h.Nodes, h.Node)
    /\ UNCHANGED <<graph, body, g0, avail, lifted>>

\* After the last located primitive: the body is taken from the first basic
\* block the range over the block map yields.
FinishH ==
    /\ pc = "loop"
    /\ IF DOMAIN bbs = {}
       THEN pc' = "error" /\ err' = ErrMissingBlock /\ body' = <<>>
       ELSE \E n \in DOMAIN bbs :
                IF ~IsNil(bbs[n].term)
                THEN pc' = "error" /\ err' = ErrInvalidTerm /\ body' = <<>>
                ELSE pc' = "done" /\ err' = "" /\ body' = bbs[n].stmts
    /\ UNCHANGED <<graph, bbs, iters, g0, consumed, last, avail, lifted>>

NextH == ApplyHprim \/ FinishH

SpecH == InitH /\ [][NextH]_vars


\* ------------------------------------------------- the lifter of a function

\* A comparison instruction with token p in the place of the predicate.
CmpInst(p) ==
    <<Tok("LocalID", "2"), Tok("Equal", "="), Tok("KwIcmp", "icmp"), p,
      Tok("Type", "i32"), Tok("LocalVar", "i"), Tok("Comma", ","), Tok("Int", "10")>>

\* Tokens that are no comparison predicate; a local may be named as one.
OtherToks ==
    {Tok("Type", "i32"), Tok("Int", "10"), Tok("LocalVar", "eq"),
     Tok("LocalVar", "ord"), Tok("KwAdd", "add"), Tok("KwTrue", "true")}

\* The instructions handed to getCmpPred, whole and cut short.
CmpInsts ==
    {SubSeq(CmpInst(p), 1, k) : p \in PredToks \cup OtherToks, k \in {3, 4, 8}}

\* The function being lifted: its blocks as parseFunc collects them.
InitL ==
    \E mode \in HStmtModes, tm \in HFunctions :
        /\ graph = [nodes |-> DOMAIN tm,
                    edges |-> UNION {TermEdges(n, tm[n]) : n \in DOMAIN tm},
                    entry |-> Entry]
        /\ bbs = [n \in DOMAIN tm |->
                     Block(n, BlockStmts(mode, n, tm[n].kind),
                           IF tm[n].kind = "condbr"
                           THEN CondBr(CondTok(mode, n), tm[n].t, tm[n].f)
                           ELSE tm[n])]
        /\ g0 = graph
        /\ pc = "lift"
        /\ err = ""
        /\ body = <<>>
        /\ iters = 0
        /\ consumed = {}
        /\ last = NoLast
        /\ avail = {}
        /\ lifted = NoCall

\* parseInst lifts a comparison: getCmpPred decodes its predicate.
CallGetCmpPred ==
    /\ pc = "lift"
    /\ \E inst \in CmpInsts :
           lifted' = [fn |-> "getCmpPred", in |-> inst, out |-> getCmpPred(inst)]
    /\ pc' = "lifted"
    /\ UNCHANGED <<graph, bbs, err, body, iters, g0, consumed, last, avail>>

\* The locals two instructions of a function define: anonymous ones carry
\* their number, named ones their name.
LocalToks ==
    {Tok("LocalID", "7"), Tok("LocalID", "42"), Tok("LocalVar", "foo"),
     Tok("LocalVar", "x"), Tok("LocalVar", "_7"), Tok("LocalVar", "_42")}

\* An assignment operation "%foo = ..." cut after the equal sign.
AssignInst(tok) == <<tok, Tok("Equal", "=")>>

\* parseInst lifts two assignment operations: getResult names each result.
CallGetResult ==
    /\ pc = "lift"
    /\ \E t1, t2 \in LocalToks :
           lifted' = [fn |-> "getResult", in |-> <<t1, t2>>,
                      out |-> <<GetResult(AssignInst(t1)), GetResult(AssignInst(t2))>>]
    /\ pc' = "lifted"
    /\ UNCHANGED <<graph, bbs, err, body, iters, g0, consumed, last, avail>>

\* The statements of a condition block: definitions of the temporaries t and
\* u, a plain assignment to t, and uses of t in a call and inside an if.
CondStmts ==
    {Define("t", <<"i", "<", "10">>), Define("t", <<"j">>),
     Define("u", <<"t", "+", "1">>), Assign("t", <<"k">>),
     Stmt("", <<"f", "(", "u", ")">>),
     IfStmt(<<"c">>, <<Stmt("", <<"g", "(", "t", ")">>)>>)}

\* Statement lists of at most MaxStmts statements.
CondStmtLists == UNION {[1..n -> CondStmts] : n \in 0..MaxStmts}

\* The decoded conditions: an identifier, or a literal, or a compound.
Conds == {Ident("t"), Ident("u"), Ident("true"), Not(Ident("t"))}

\* createPreLoopPrim expands the condition over the condition block.
CallExpand ==
    /\ pc = "lift"
    /\ \E stmts \in CondStmtLists, cond \in Conds :
           lifted' = [fn |-> "expand", in |-> [stmts |-> stmts, cond |-> cond],
                      out |-> Expand(stmts, cond)]
    /\ pc' = "lifted"
    /\ UNCHANGED <<graph, bbs, err, body, iters, g0, consumed, last, avail>>

\* The identifiers the PHI instructions of a function define.
PhiIdents == {"x", "y"}

\* The permutations of a finite set, as sequences.
Perms(S) ==
    {q \in [1..Cardinality(S) -> S] : \A i, j \in 1..Cardinality(S) : q[i] = q[j] => i = j}

\* The incoming values of a PHI instruction of block b that defines ident:
\* one definition per predecessor, in the order of the instruction.
PhiDefs(g, b, ident) ==
    {[i \in 1..Len(q) |-> [expr |-> Ident(ident \o "_" \o q[i]), bb |-> q[i]]] :
        q \in Perms(Preds(g, b))}

\* The PHI instructions of a function: an identifier is defined at most once.
PhiSets(g) ==
    LET phi == {[block |-> b, ident |-> x, defs |-> d] :
                    b \in {n \in g.nodes : Preds(g, n) # {}}, x \in PhiIdents,
                    d \in UNION {PhiDefs(g, n, y) : n \in g.nodes, y \in PhiIdents}}
        ok(f) == f.defs \in PhiDefs(g, f.block, f.ident)
    IN  {P \in SUBSET {f \in phi : ok(f)} : \A f1, f2 \in P : f1.ident = f2.ident => f1 = f2}

\* The orders in which the two map ranges visit the PHI instructions: block
\* by block, the identifiers of a block one after another.
PhiOrders(P) ==
    {q \in Perms(P) :
        \A i, j, k \in 1..Len(q) :
            (i < j /\ j < k /\ q[i].block = q[k].block) => q[j].block = q[i].block}

\* The body of the innermost loop that defines ident as a statement of def.bb.
PhiAssignDefine(b, ident, def) ==
    [b EXCEPT ![def.bb].stmts = Append(@, Define(ident, def.expr))]

\* The body of the innermost loop: append ident = def.expr to block def.bb.
PhiAssign(b, ident, def) ==
    [b EXCEPT ![def.bb].stmts = Append(@, Assign(ident, def.expr))]

RECURSIVE PhiDefsLoop(_, _, _)
\* The loop over the definitions of one PHI instruction, from definition i.
PhiDefsLoop(b, f, i) ==
    IF i > Len(f.defs) THEN b
    ELSE PhiDefsLoop(PhiAssign(b, f.ident, f.defs[i]), f, i + 1)

RECURSIVE PhisLoop(_, _, _)
\* The loops over the blocks and their PHI instructions, in order q.
PhisLoop(b, q, i) ==
    IF i > Len(q) THEN b
    ELSE PhisLoop(PhiDefsLoop(b, q[i], 1), q, i + 1)

\* parseFunc replaces the PHI instructions with assignments in the blocks
\* the values come from.
ResolvePhis ==
    /\ pc = "lift"
    /\ \E P \in PhiSets(graph) : \E q \in PhiOrders(P) :
           /\ bbs' = PhisLoop(bbs, q, 1)
           /\ lifted' = [fn |-> "phi", in |-> [phis |-> P, bbs |-> bbs], out |-> q]
    /\ pc' = "lifted"
    /\ UNCHANGED <<graph, err, body, iters, g0, consumed, last, avail>>

NextL == CallGetCmpPred \/ CallGetResult \/ CallExpand \/ ResolvePhis

SpecL == InitL /\ [][NextL]_vars

\* ------------------------------------------------- go-post: assignbinop fix

\* Operands: an identifier, a literal, an index expression a[i].
GoIdent(name) == [e |-> "ident", name |-> name]
GoLit(v) == [e |-> "lit", name |-> v]
GoIndex(name) == [e |-> "index", name |-> name]

\* Expressions: a binary expression of two operands, or an operand alone.
BinaryExpr(op, x, y) == [e |-> "binary", op |-> op, x |-> x, y |-> y]
Operand(x) == [e |-> "operand", op |-> "", x |-> x, y |-> x]

\* Statements: an assignment with token tok ("=", ":=", "+=", ...), or an
\* expression statement.
AssignStmt(lhs, tok, rhs) == [k |-> "assign", lhs |-> lhs, tok |-> tok, rhs |-> rhs]
ExprStmt(x) == [k |-> "expr", lhs |-> <<>>, tok |-> "", rhs |-> <<Operand(x)>>]

\* The binary operators with a compound assignment.
AssignOps == {"+", "-", "*", "/", "%", "&", "|", "^", "<<", ">>", "&^"}

\* The other binary operators of Go.
OtherOps == {"==", "!=", "<", "<=", ">", ">=", "&&", "||"}

\* isName: whether the expression is the identifier name.
isName(x, name) == x.e = "ident" /\ x.name = name

\* The result of the callback for one statement: the statement left in the
\* file, whether it was replaced, and whether log.Fatalf ended the program.
Visited(stmt, fixed, fatal) == [stmt |-> stmt, fixed |-> fixed, fatal |-> fatal]

\* The callback assignbinop hands to walk, for one statement of the file.
assignbinopStmt(stmt) ==
    IF stmt.k # "assign" THEN Visited(stmt, FALSE, FALSE)
    ELSE IF stmt.tok # "=" THEN Visited(stmt, FALSE, FALSE)
    ELSE IF Len(stmt.lhs) # 1 THEN Visited(stmt, FALSE, FALSE)
    ELSE IF stmt.lhs[1].e # "ident" THEN Visited(stmt, FALSE, FALSE)
    ELSE IF stmt.rhs[1].e # "binary" THEN Visited(stmt, FALSE, FALSE)
    ELSE IF stmt.rhs[1].op \notin AssignOps THEN Visited(stmt, FALSE, TRUE)
    ELSE IF isName(stmt.rhs[1].x, stmt.lhs[1].name)
    THEN Visited(AssignStmt(stmt.lhs, stmt.rhs[1].op \o "=", <<Operand(stmt.rhs[1].y)>>),
                 TRUE, FALSE)
    ELSE IF isName(stmt.rhs[1].y, stmt.lhs[1].name)
    THEN Visited(AssignStmt(stmt.lhs, stmt.rhs[1].op \o "=", <<Operand(stmt.rhs[1].x)>>),
                 TRUE, FALSE)
    ELSE Visited(stmt, FALSE, FALSE)

RECURSIVE walk(_, _, _)
\* walk over the statements of the file from statement i on; it ends with
\* the program when the callback does.
walk(file, fixed, i) ==
    IF i > Len(file) THEN [file |-> file, fixed |-> fixed, fatal |-> FALSE]
    ELSE LET v == assignbinopStmt(file[i])
         IN  IF v.fatal
             THEN [file |-> file, fixed |-> fixed, fatal |-> TRUE]
             ELSE walk([file EXCEPT ![i] = v.stmt], fixed \/ v.fixed, i + 1)

\* assignbinop: the file after the fix and the result of the fix.
assignbinop(file) == walk(file, FALSE, 1)

\* The operands of the files drawn.
Operands == {GoIdent("x"), GoIdent("y"), GoLit("3")}

\* The assignments x = <operand> and x = <operand> op <operand>, for every
\* binary operator.
PlainAssigns ==
    {AssignStmt(<<GoIdent("x")>>, "=", <<BinaryExpr(op, a, b)>>) :
        op \in AssignOps \cup OtherOps, a \in Operands, b \in Operands}
    \cup {AssignStmt(<<GoIdent("x")>>, "=", <<Operand(a)>>) : a \in Operands}

\* Statements of other forms: define, two targets, an indexed target, a call.
OtherStmts ==
    {AssignStmt(<<GoIdent("x")>>, ":=", <<BinaryExpr("+", GoIdent("x"), GoIdent("y"))>>),
     AssignStmt(<<GoIdent("x"), GoIdent("y")>>, "=",
                <<BinaryExpr("+", GoIdent("x"), GoIdent("y")), Operand(GoIdent("x"))>>),
     AssignStmt(<<GoIndex("x")>>, "=", <<BinaryExpr("+", GoIndex("x"), GoIdent("y"))>>),
     AssignStmt(<<GoIdent("x")>>, "+=", <<Operand(GoIdent("y"))>>),
     ExprStmt(GoIdent("x"))}

\* The statements around the one under study.
AroundStmts ==
    {AssignStmt(<<GoIdent("x")>>, "=", <<BinaryExpr("*", GoIdent("y"), GoIdent("x"))>>),
     AssignStmt(<<GoIdent("y")>>, "=", <<Operand(GoLit("3"))>>)}

\* Files of at most MaxFile statements: one statement of any form among
\* statements of AroundStmts.
Files ==
    {f \in UNION {[1..n -> PlainAssigns \cup OtherStmts \cup AroundStmts] : n \in 1..MaxFile} :
        \E i \in 1..Len(f) : \A j \in 1..Len(f) : j # i => f[j] \in AroundStmts}

\* go-post before a fix is applied to a parsed file.
InitF ==
    /\ graph = [nodes |-> {}, edges |-> {}, entry |-> ""]
    /\ bbs = <<>>
    /\ g0 = graph
    /\ pc = "fix"
    /\ err = ""
    /\ body = <<>>
    /\ iters = 0
    /\ consumed = {}
    /\ last = NoLast
    /\ avail = {}
    /\ lifted = NoCall

\* go-post applies the assignbinop fix to a file.
CallAssignbinop ==
    /\ pc = "fix"
    /\ \E file \in Files :
           LET r == assignbinop(file)
           IN  /\ lifted' = [fn |-> "assignbinop", in |-> file, out |-> r]
               /\ pc' = IF r.fatal THEN "fatal" ELSE "fixed"
    /\ UNCHANGED <<graph, bbs, err, body, iters, g0, consumed, last, avail>>

NextF == CallAssignbinop

SpecF == InitF /\ [][NextF]_vars

\* ================================================================== claims

Located == last.sub # "" /\ last.res.err = ""

\* The only block left in the block map.
Survivor == bbs[CHOOSE n \in DOMAIN bbs : TRUE]

C2_Agreement ==
    pc = "loop" =>
        /\ DOMAIN bbs = graph.nodes
        /\ \A n \in DOMAIN bbs : bbs[n].name = n
        /\ Located =>
               /\ last.newName \in DOMAIN bbs \cap graph.nodes
               /\ Range(last.m) \cap (DOMAIN bbs \cup graph.nodes) = {}

\* Two primitives located, and blocks left to restructure.
C2_Witness ==
    /\ pc = "loop"
    /\ iters = 2
    /\ Cardinality(DOMAIN bbs) = 2

\* ----------------------------------------------------------------------- C3
\* The order in which locatePrim tries the subgraphs.
C3_Order == <<"if", "if_else", "pre_loop", "post_loop", "if_return", "list">>

C3_Pos(name) == CHOOSE i \in 1..Len(C3_Order) : C3_Order[i] = name

\* C3 as claimed: whenever list has an isomorphism, list is what is located.
C3_ListFirst == (Located /\ "list" \in avail) => last.sub = "list"

\* C3: locatePrim tries if, if_else, pre_loop, post_loop, if_return, list in
\* that order and locates the first with an isomorphism; list is located only
\* when no other subgraph has one.
C3_CodeOrder ==
    Located =>
        /\ last.sub \in avail
        /\ \A s \in avail : C3_Pos(last.sub) <= C3_Pos(s)
        /\ last.sub = "list" => avail = {"list"}

\* An if located although list had an isomorphism too.
C3_Witness ==
    /\ Located
    /\ last.sub = "if"
    /\ "list" \in avail

\* ----------------------------------------------------------------------- C4
\* C4 as claimed: a CFG reduced to a single node always yields the body.
C4_SurvivorNil ==
    (pc # "loop" /\ Cardinality(graph.nodes) = 1) =>
        /\ pc = "done"
        /\ IsNil(Survivor.term)
        /\ body = Survivor.stmts

\* C4: restructure returns the statements of the surviving block as the body
\* exactly when its terminator is nil; a CFG reduced to a single node whose
\* terminator is not nil yields the invalid terminator error and no body.
C4_BodyOnlyIfNil ==
    /\ pc = "done" =>
           /\ Cardinality(DOMAIN bbs) = 1
           /\ IsNil(Survivor.term)
           /\ body = Survivor.stmts
    /\ (pc # "loop" /\ Cardinality(DOMAIN bbs) = 1 /\ ~IsNil(Survivor.term)) =>
           /\ pc = "error"
           /\ err = ErrInvalidTerm
           /\ body = <<>>

\* A function with a returning block reduced to one node whose terminator
\* still branches.
C4_Witness ==
    /\ pc = "error"
    /\ err = ErrInvalidTerm
    /\ iters >= 2
    /\ \E n \in g0.nodes : Succs(g0, n) = {}

\* ----------------------------------------------------------------------- C5
\* The nodes on a cycle with x.
Cycle(g, x) ==
    {y \in g.nodes :
        /\ y \in ReachFrom(g.edges, Succs(g, x))
        /\ x \in ReachFrom(g.edges, Succs(g, y))}

\* A loop entered from outside at two of its nodes.
TwoEntryLoop(g) ==
    \E x \in g.nodes :
        LET c == Cycle(g, x)
        IN  /\ Preds(g, x) \ c # {}
            /\ \E y \in c \ {x} : Preds(g, y) \ c # {}

NoIsomorphism(g) == \A i \in 1..Len(subs) : Isomorphisms(g, subs[i]) = {}

C7_ExitRole(subName) ==
    CASE subName \in {"list", "post_loop"} -> "B"
      [] subName \in {"if", "pre_loop", "if_return"} -> "C"
      [] subName = "if_else" -> "D"

\* C7: the terminator of a synthesized primitive is the terminator of the
\* member block of the exit role of its subgraph (B for list and post_loop,
\* C for if, pre_loop and if_return, D for if_else) and its name is the new
\* name of the merged node.
C7_ExitTerm ==
    Located =>
        /\ last.res.prim.term = last.members[last.m[C7_ExitRole(last.sub)]].term
        /\ last.res.prim.name = last.newName

\* A post loop whose exit block branches on, unlike its entry block.
C7_Witness ==
    /\ Located
    /\ last.sub = "post_loop"
    /\ last.res.prim.term.kind = "br"
    /\ last.members[last.m["A"]].term.kind = "condbr"

\* ----------------------------------------------------------------------- C8
\* createIfPrim was handed the blocks of all its nodes, the first of which
\* ends in a two-way branch.
C8_IfRan ==
    /\ last.sub = "if"
    /\ Range(last.m) \subseteq DOMAIN last.members
    /\ last.members[last.m["A"]].term.kind = "condbr"

\* C8: the if synthesis yields stmts(A), if cond { stmts(B) }, stmts(C) when
\* the true target of A's branch is the block of B and the false target the
\* block of C, and fails without a primitive when the targets differ from
\* the blocks of B and C.
C8_IfTargetsChecked ==
    C8_IfRan =>
        LET a == last.members[last.m["A"]]
            b == last.members[last.m["B"]]
            c == last.members[last.m["C"]]
        IN  IF a.term.t = b.name /\ a.term.f = c.name
            THEN /\ last.res.err = ""
                 /\ last.res.prim.stmts =
                        a.stmts \o <<IfStmt(BrCondExpr(a.term).e, b.stmts)>> \o c.stmts
            ELSE /\ last.res.err # ""
                 /\ last.res.prim = NoPrim

\* ----------------------------------------------------------------------- C9
\* C9: the if_else synthesis yields stmts(A), if cond { then } else { else },
\* stmts(D), where then is the statements of the block named by the true
\* target of A's branch and else those of the block named by the false
\* target, whichever of them is the block of B and of C.
C9_IfElseByTargets ==
    (Located /\ last.sub = "if_else") =>
        LET a == last.members[last.m["A"]]
            d == last.members[last.m["D"]]
        IN  /\ {a.term.t, a.term.f} \subseteq {last.m["B"], last.m["C"]}
            /\ last.res.prim.stmts =
                   a.stmts
                       \o <<IfElseStmt(BrCondExpr(a.term).e,
                                       last.members[a.term.t].stmts,
                                       last.members[a.term.f].stmts)>>
                       \o d.stmts

\* An if_else whose B is the false target and whose C is the true target,
\* with different statements.
C9_Witness ==
    /\ Located
    /\ last.sub = "if_else"
    /\ last.m["B"] = last.members[last.m["A"]].term.f
    /\ last.m["C"] = last.members[last.m["A"]].term.t
    /\ last.members[last.m["B"]].stmts # last.members[last.m["C"]].stmts

\* ---------------------------------------------------------------------- C10
\* The condition and the statements of the entry block of the located
\* pre_loop after the expansion of the condition.
C10_Expanded ==
    LET a == last.members[last.m["A"]]
    IN  Expand(a.stmts, BrCondExpr(a.term).e)

\* C10: the pre_loop synthesis yields for cond { stmts(B) }, stmts(C) when A
\* has no statement left after the expansion of the condition, and else
\* for { stmts(A); if !cond { break }; stmts(B) }, stmts(C), with the break
\* guarded by the negation of the expanded condition.
C10_PreLoopForms ==
    (Located /\ last.sub = "pre_loop") =>
        LET b == last.members[last.m["B"]]
            c == last.members[last.m["C"]]
            loop == last.res.prim.stmts[1]
        IN  /\ last.res.prim.stmts = <<loop>> \o c.stmts
            /\ loop.k = "for"
            /\ IF C10_Expanded.stmts = <<>>
               THEN /\ loop.cond = C10_Expanded.cond
                    /\ loop.body = b.stmts
               ELSE /\ loop.cond = <<>>
                    /\ loop.body =
                           C10_Expanded.stmts
                               \o <<IfStmt(<<"!", "(">> \o C10_Expanded.cond \o <<")">>,
                                           <<BreakStmt>>)>>
                               \o b.stmts

\* A pre_loop whose entry block keeps a statement after its condition was
\* expanded: the loop breaks on the negated comparison.
C10_Witness ==
    /\ Located
    /\ last.sub = "pre_loop"
    /\ C10_Expanded.stmts # <<>>
    /\ Len(C10_Expanded.cond) > 1
    /\ last.res.prim.stmts[1].cond = <<>>

\* ---------------------------------------------------------------------- C11
\* C11: the post_loop synthesis yields for { stmts(A); if !cond { break } },
\* stmts(B), with cond decoded from the terminator of A and not expanded: the
\* statements of A stay in the loop body, in their order, before the break
\* guarded by the negation of cond.
C11_PostLoopForm ==
    (Located /\ last.sub = "post_loop") =>
        LET a == last.members[last.m["A"]]
            b == last.members[last.m["B"]]
            loop == last.res.prim.stmts[1]
        IN  /\ last.res.prim.stmts = <<loop>> \o b.stmts
            /\ loop.k = "for"
            /\ loop.cond = <<>>
            /\ SubSeq(loop.body, 1, Len(a.stmts)) = a.stmts
            /\ Len(loop.body) = Len(a.stmts) + 1
            /\ loop.body[Len(loop.body)] =
                   IfStmt(<<"!", "(">> \o BrCondExpr(a.term).e \o <<")">>,
                          <<BreakStmt>>)

\* A post_loop whose body block defines its condition after another
\* statement: the definition stays in the loop and the guard names the
\* identifier.
C11_Witness ==
    /\ Located
    /\ last.sub = "post_loop"
    /\ Len(last.members[last.m["A"]].stmts) = 2
    /\ last.members[last.m["A"]].stmts[2].k = "define"
    /\ last.res.prim.stmts[1].body[3].cond =
           <<"!", "(", last.members[last.m["A"]].stmts[2].id, ")">>

\* ---------------------------------------------------------------------- C12
\* The if_return synthesis was handed the blocks of its nodes, A ending in
\* a two-way branch to the blocks of B and C, and B returning.
C12_IfReturnRan ==
    /\ last.sub = "if_return"
    /\ Range(last.m) \subseteq DOMAIN last.members
    /\ last.members[last.m["A"]].term.kind = "condbr"
    /\ {last.members[last.m["A"]].term.t, last.members[last.m["A"]].term.f}
           = {last.m["B"], last.m["C"]}
    /\ IsNil(last.members[last.m["B"]].term)

\* C12: the if_return synthesis yields stmts(A), if c { stmts(B) }, stmts(C),
\* where c is the condition of A's branch when its true target is the
\* returning block B, and the negation of that condition when its true
\* target is C.
C12_IfReturnPolarity ==
    C12_IfReturnRan =>
        LET a == last.members[last.m["A"]]
            b == last.members[last.m["B"]]
            c == last.members[last.m["C"]]
            cond == BrCondExpr(a.term).e
        IN  /\ last.res.err = ""
            /\ last.res.prim.stmts =
                   a.stmts
                       \o <<IfStmt(IF a.term.t = b.name
                                   THEN cond
                                   ELSE <<"!", "(">> \o cond \o <<")">>,
                                   b.stmts)>>
                       \o c.stmts

\* ---------------------------------------------------------------------- C13
\* C13: an if_return whose block of B does not end in a return is rejected:
\* the synthesis fails and yields no primitive.
C13_IfReturnNeedsReturn ==
    (/\ last.sub = "if_return"
     /\ Range(last.m) \subseteq DOMAIN last.members
     /\ ~IsNil(last.members[last.m["B"]].term)) =>
        /\ last.res.err # ""
        /\ last.res.prim = NoPrim
        /\ pc = "error"

\* ---------------------------------------------------------------------- C14
\* A straight-line chain: no branch on a condition and no block with two
\* predecessors.
C14_Chain(g) ==
    /\ \A e \in g.edges : e.label = ""
    /\ \A n \in g.nodes : Cardinality(Preds(g, n)) <= 1

RECURSIVE C14_PathStmts(_, _)
\* The statements of the blocks of a chain from block n on, in path order:
\* every block holds its one statement and the last one returns.
C14_PathStmts(g, n) ==
    <<Stmt("s_" \o n, <<>>)>>
        \o (IF Succs(g, n) = {}
            THEN <<ReturnStmt>>
            ELSE C14_PathStmts(g, CHOOSE s \in Succs(g, n) : TRUE))

\* C14: the list synthesis yields stmts(A) followed by stmts(B); a chain of
\* blocks reduced by list collapses yields as body the statements of its
\* blocks in path order, in whatever order the pairs were collapsed.
C14_ListOrder ==
    /\ (Located /\ last.sub = "list") =>
           last.res.prim.stmts =
               last.members[last.m["A"]].stmts \o last.members[last.m["B"]].stmts
    /\ (pc = "done" /\ C14_Chain(g0)) => body = C14_PathStmts(g0, g0.entry)

\* A chain of four blocks whose last collapse joins the entry block with the
\* primitive of the three blocks after it.
C14_Witness ==
    /\ pc = "done"
    /\ C14_Chain(g0)
    /\ Cardinality(g0.nodes) = 4
    /\ last.sub = "list"
    /\ last.m["A"] = g0.entry
    /\ last.m["B"] \in PrimNames
    /\ Len(body) = 5

\* ---------------------------------------------------------------------- C15
\* The operator of every supported predicate mnemonic.
C15_Table ==
    [eq |-> "==", oeq |-> "==", ueq |-> "==",
     ne |-> "!=", one |-> "!=", une |-> "!=",
     ugt |-> ">", sgt |-> ">", ogt |-> ">",
     uge |-> ">=", sge |-> ">=", oge |-> ">=",
     ult |-> "<", slt |-> "<", olt |-> "<",
     ule |-> "<=", sle |-> "<=", ole |-> "<="]

\* C15: getCmpPred yields for every supported predicate the operator of the
\* table and no error; for ord, for uno, for a token that is no predicate and
\* for an instruction without predicate it yields an error and no operator.
C15_PredTable ==
    lifted.fn = "getCmpPred" =>
        IF /\ Len(lifted.in) >= 4
           /\ lifted.in[4] \in PredToks
           /\ lifted.in[4].val \in DOMAIN C15_Table
        THEN lifted.out = [err |-> "", op |-> C15_Table[lifted.in[4].val]]
        ELSE /\ lifted.out.err # ""
             /\ lifted.out.op \notin Range(C15_Table)

\* The predicate ord decoded: an error.
C15_Witness ==
    /\ lifted.fn = "getCmpPred"
    /\ Len(lifted.in) >= 4
    /\ lifted.in[4] = Tok("KwOrd", "ord")
    /\ lifted.out.err # ""

\* ---------------------------------------------------------------------- C16
\* The identifier of a local: _N for the anonymous %N, foo for the named %foo.
C16_Emitted(tok) ==
    IF tok.kind = "LocalID" THEN <<"_" \o tok.val>> ELSE <<tok.val>>

\* C16: an anonymous local %N is emitted as _N and a named local %foo as
\* foo, and two different locals of a function are never emitted as the same
\* identifier.
C16_IdentInjective ==
    lifted.fn = "getResult" =>
        /\ lifted.out[1] = [err |-> "", e |-> C16_Emitted(lifted.in[1])]
        /\ lifted.out[2] = [err |-> "", e |-> C16_Emitted(lifted.in[2])]
        /\ lifted.in[1] # lifted.in[2] => lifted.out[1].e # lifted.out[2].e

\* ---------------------------------------------------------------------- C17
\* The definition expansion folds: the last define-assignment of t, when t
\* is an identifier and no later statement uses it; 0 when there is none.
C17_Folded(stmts, cond) ==
    IF Len(cond) # 1 THEN 0
    ELSE LET last_def == {i \in 1..Len(stmts) :
                             /\ stmts[i].k = "define"
                             /\ stmts[i].id = cond[1]
                             /\ \A j \in (i + 1)..Len(stmts) :
                                    ~(stmts[j].k = "define" /\ stmts[j].id = cond[1])}
         IN  IF \E i \in last_def : ~StmtsUse(SubSeq(stmts, i + 1, Len(stmts)), cond[1])
             THEN CHOOSE i \in last_def : TRUE
             ELSE 0

\* C17: expansion of a condition identifier t returns the right-hand side of
\* the last define-assignment t := rhs and removes exactly that statement when
\* t is not used after it; in every other case (no such definition, a later
\* use, a condition that is no identifier) condition and statements are
\* returned unchanged.
C17_Expand ==
    lifted.fn = "expand" =>
        LET stmts == lifted.in.stmts
            cond == lifted.in.cond
            i == C17_Folded(stmts, cond)
        IN  IF i = 0
            THEN lifted.out = [cond |-> cond, stmts |-> stmts]
            ELSE /\ lifted.out.cond = stmts[i].cond
                 /\ Len(lifted.out.stmts) = Len(stmts) - 1
                 /\ \A j \in 1..(i - 1) : lifted.out.stmts[j] = stmts[j]
                 /\ \A j \in i..(Len(stmts) - 1) : lifted.out.stmts[j] = stmts[j + 1]

\* Two definitions of t, the last one folded, and a statement after it kept.
C17_Witness ==
    /\ lifted.fn = "expand"
    /\ Len(lifted.in.stmts) = 3
    /\ lifted.in.stmts[1].k = "define" /\ lifted.in.stmts[1].id = "t"
    /\ C17_Folded(lifted.in.stmts, lifted.in.cond) = 2
    /\ lifted.out.cond = lifted.in.stmts[2].cond
    /\ lifted.out.stmts = <<lifted.in.stmts[1], lifted.in.stmts[3]>>

\* ---------------------------------------------------------------------- C18
\* The incoming pairs that name block p: a PHI instruction and the index of
\* its definition.
C18_Incoming(p) ==
    {<<f, i>> \in lifted.in.phis \X (1..Cardinality(DOMAIN bbs)) :
        i <= Len(f.defs) /\ f.defs[i].bb = p}

\* C18: PHI resolution appends, for every incoming pair (e, p) of every PHI
\* instruction that defines x, one statement x = e in the assign form, never
\* the define form, at the end of the statements of block p; it removes and
\* reorders no statement, and adds nothing to a block no pair names.
C18_PhiAppends ==
    lifted.fn = "phi" =>
        \A p \in DOMAIN bbs :
            LET old == lifted.in.bbs[p].stmts
                new == bbs[p].stmts
                added == (Len(old) + 1)..Len(new)
            IN  /\ Len(new) = Len(old) + Cardinality(C18_Incoming(p))
                /\ SubSeq(new, 1, Len(old)) = old
                /\ \A j \in added : new[j].k = "assign"
                /\ \A pair \in C18_Incoming(p) :
                       Cardinality({j \in added :
                           new[j] = Assign(pair[1].ident, pair[1].defs[pair[2]].expr)}) = 1
                /\ bbs[p].term = lifted.in.bbs[p].term
                /\ bbs[p].name = lifted.in.bbs[p].name

\* Two PHI instructions resolved: a block with statements of its own gets an
\* assignment of each, another block gets none.
C18_Witness ==
    /\ lifted.fn = "phi"
    /\ Cardinality(lifted.in.phis) = 2
    /\ \E p, r \in DOMAIN bbs :
           /\ Len(lifted.in.bbs[p].stmts) > 0
           /\ Cardinality(C18_Incoming(p)) = 2
           /\ Len(bbs[p].stmts) = Len(lifted.in.bbs[p].stmts) + 2
           /\ C18_Incoming(r) = {}
           /\ bbs[r] = lifted.in.bbs[r]

\* ---------------------------------------------------------------------- C19
\* The subgraph of the catalog with the given name.
C19_Sub(name) == CHOOSE s \in Range(subs) : s.name = name

\* C19: merging the matched nodes into the new node n keeps every edge that
\* crosses the boundary of the set, with its label: an edge from an unmatched
\* u into the set becomes (u -> n), an edge from the set to an unmatched v
\* becomes (n -> v) and leaves the exit member, the edges inside the set (the
\* self-loop of post_loop too) disappear, and the edges between unmatched
\* nodes are unchanged.
C19_MergeBoundary ==
    [][graph' # graph =>
          LET matched == Range(last'.m)
              n == last'.newName
              exit == last'.m[C19_Sub(last'.sub).exit]
              inc == {e \in graph.edges : e.from \notin matched /\ e.to \in matched}
              out == {e \in graph.edges : e.from \in matched /\ e.to \notin matched}
              kept == {e \in graph.edges : e.from \notin matched /\ e.to \notin matched}
          IN  /\ \A e \in inc : Edge(e.from, n, e.label) \in graph'.edges
              /\ \A e \in out : Edge(n, e.to, e.label) \in graph'.edges /\ e.from = exit
              /\ \A e \in kept : e \in graph'.edges
              /\ \A e \in graph'.edges :
                     \/ e \in kept
                     \/ e.to = n /\ \E i \in inc : i.from = e.from /\ i.label = e.label
                     \/ e.from = n /\ \E o \in out : o.to = e.to /\ o.label = e.label
              /\ \A e \in graph'.edges : ~(e.from = n /\ e.to = n)
              /\ graph'.nodes = (graph.nodes \ matched) \cup {n}]_vars

\* A post_loop merged: its block branched to itself, the merged node has an
\* edge from a node outside and a labeled edge to a node outside, and no
\* self-loop.
C19_Witness ==
    /\ last.sub = "post_loop"
    /\ last.newName \in graph.nodes
    /\ last.members[last.m["A"]].term.t = last.m["A"]
    /\ \E e \in graph.edges : e.to = last.newName /\ e.from # last.newName
    /\ \E e \in graph.edges : e.from = last.newName /\ e.to # last.newName /\ e.label # ""
    /\ ~\E e \in graph.edges : e.from = last.newName /\ e.to = last.newName

\* ---------------------------------------------------------------------- C20
\* Every edge of sub has an edge between the images under m, with the label
\* of the edge of sub when it has one.
C20_LabelsEqual(g, sub, m) ==
    \A e \in sub.edges :
        \E x \in g.edges :
            x.from = m[e.from] /\ x.to = m[e.to] /\ (e.label = "" \/ x.label = e.label)

\* No edge joins a matched and an unmatched node, but the edges into the image
\* of the entry and out of the image of the exit.
C20_NoSideEdges(g, sub, m) ==
    \A x \in g.edges :
        /\ (x.from \in Range(m) /\ x.to \notin Range(m)) => x.from = m[sub.exit]
        /\ (x.from \notin Range(m) /\ x.to \in Range(m)) => x.to = m[sub.entry]

\* C20 as stated: every mapping the matcher returns is injective, maps each
\* edge of the shape to an edge of the graph with an equal label (an unlabeled
\* edge of the shape matches any label), and no edge joins a matched and an
\* unmatched node but the edges into the entry image and out of the exit
\* image.
C20_EqualLabels ==
    [][graph' # graph =>
          LET sub == C19_Sub(last'.sub)
              m == last'.m
          IN  /\ DOMAIN m = sub.nodes
              /\ Injective(m)
              /\ C20_LabelsEqual(graph, sub, m)
              /\ C20_NoSideEdges(graph, sub, m)]_vars

\* C20 amended: as stated, but for if_else, whose body nodes B and C the
\* matcher cannot tell apart, the labels are equal under the mapping or under
\* the mapping with the images of B and C interchanged.
C20_LabelsUpToSwap ==
    [][graph' # graph =>
          LET sub == C19_Sub(last'.sub)
              m == last'.m
              sw == [k \in DOMAIN m |->
                        IF k = "B" THEN m["C"] ELSE IF k = "C" THEN m["B"] ELSE m[k]]
          IN  /\ DOMAIN m = sub.nodes
              /\ Injective(m)
              /\ \/ C20_LabelsEqual(graph, sub, m)
                 \/ sub.name = "if_else" /\ C20_LabelsEqual(graph, sub, sw)
              /\ C20_NoSideEdges(graph, sub, m)]_vars

\* An if_else located and merged with B on the false target of A's branch.
C20_Witness ==
    /\ last.sub = "if_else"
    /\ last.newName \in graph.nodes
    /\ Injective(last.m)
    /\ last.members[last.m["A"]].term.t = last.m["C"]
    /\ last.members[last.m["A"]].term.f = last.m["B"]

\* ---------------------------------------------------------------------- C21
\* C21: the name given to a merged node is no node of the graph at the moment
\* of insertion, so storing the primitive under that name in the block map
\* overwrites no block that has not been consumed: every block outside the
\* match is in the map afterwards as it was.
C21_FreshName ==
    [][graph' # graph =>
          /\ last'.newName \notin graph.nodes
          /\ last'.newName \in graph'.nodes
          /\ graph.nodes \ Range(last'.m) \subseteq graph'.nodes
          /\ pc' = "loop" =>
                 \A n \in DOMAIN bbs \ Range(last'.m) :
                     n # last'.newName /\ n \in DOMAIN bbs' /\ bbs'[n] = bbs[n]]_vars

\* A primitive stored beside a block of the function that no match has
\* consumed.
C21_Witness ==
    /\ pc = "loop"
    /\ Located
    /\ last.newName \in DOMAIN bbs
    /\ \E n \in DOMAIN bbs \cap g0.nodes : n # last.newName /\ n \notin consumed

\* ---------------------------------------------------------------------- C23
\* The statement the fix is said to leave for stmt: x op= y for the
\* single-target plain assignments x = x op y and x = y op x with an operator
\* that has a compound assignment, and stmt itself otherwise.
C23_Expected(stmt) ==
    IF /\ stmt.k = "assign" /\ stmt.tok = "=" /\ Len(stmt.lhs) = 1
       /\ stmt.lhs[1].e = "ident"
       /\ stmt.rhs[1].e = "binary" /\ stmt.rhs[1].op \in AssignOps
       /\ stmt.lhs[1] \in {stmt.rhs[1].x, stmt.rhs[1].y}
    THEN [stmt EXCEPT !.tok = stmt.rhs[1].op \o "=",
                      !.rhs = <<Operand(IF stmt.rhs[1].x = stmt.lhs[1]
                                        THEN stmt.rhs[1].y ELSE stmt.rhs[1].x)>>]
    ELSE stmt

\* C23: assignbinop replaces every single-target plain assignment x = x op y
\* or x = y op x, op one of + - * / % & | ^ << >> &^, by x op= y, returns true
\* exactly when a statement was replaced, and leaves every other statement
\* unchanged: defines, assignments to several targets, right-hand sides that
\* are no binary expression, binary assignments without x as an operand.
C23_Rewrites ==
    lifted.fn = "assignbinop" =>
        /\ ~lifted.out.fatal
        /\ lifted.out.file = [i \in 1..Len(lifted.in) |-> C23_Expected(lifted.in[i])]
        /\ lifted.out.fixed = (\E i \in 1..Len(lifted.in) :
                                   C23_Expected(lifted.in[i]) # lifted.in[i])

\* ---------------------------------------------------------------------- C26
\* Bit i of the 8-bit value a.
C26_Bit(a, i) == (a \div (2 ^ i)) % 2

\* The 8-bit value whose bits are given by f.
C26_FromBits(f(_)) ==
    f(0) + 2 * f(1) + 4 * f(2) + 8 * f(3) + 16 * f(4) + 32 * f(5) + 64 * f(6) + 128 * f(7)

\* a op b on 8-bit unsigned integers as Go computes it; -1 is the run-time
\* panic of a division by zero.
C26_Apply(op, a, b) ==
    CASE op = "+" -> (a + b) % 256
      [] op = "-" -> (a - b + 256) % 256
      [] op = "*" -> (a * b) % 256
      [] op = "/" -> IF b = 0 THEN -1 ELSE a \div b
      [] op = "%" -> IF b = 0 THEN -1 ELSE a % b
      [] op = "&" -> LET f(i) == C26_Bit(a, i) * C26_Bit(b, i) IN C26_FromBits(f)
      [] op = "|" -> LET f(i) == IF C26_Bit(a, i) + C26_Bit(b, i) > 0 THEN 1 ELSE 0
                     IN  C26_FromBits(f)
      [] op = "^" -> LET f(i) == (C26_Bit(a, i) + C26_Bit(b, i)) % 2 IN C26_FromBits(f)
      [] op = "&^" -> LET f(i) == C26_Bit(a, i) * (1 - C26_Bit(b, i)) IN C26_FromBits(f)
      [] op = "<<" -> (a * (2 ^ b)) % 256
      [] op = ">>" -> a \div (2 ^ b)

\* The value of an operand when x = vx and y = vy.
C26_Val(a, vx, vy) ==
    IF a.e = "ident" THEN (IF a.name = "x" THEN vx ELSE vy) ELSE 3

\* The value of x after the assignment stmt to x, run with x = vx and y = vy.
C26_Exec(stmt, vx, vy) ==
    IF stmt.tok = "="
    THEN C26_Apply(stmt.rhs[1].op, C26_Val(stmt.rhs[1].x, vx, vy),
                   C26_Val(stmt.rhs[1].y, vx, vy))
    ELSE C26_Apply(SubSeq(stmt.tok, 1, Len(stmt.tok) - 1), vx,
                   C26_Val(stmt.rhs[1].x, vx, vy))

\* C26: every rewrite made by assignbinop preserves the value assigned: for
\* each operator and all values of x and y the statement x op= y leaves x
\* with the value the replaced statement x = x op y or x = y op x gave it,
\* also for - / % << >> &^ with x as the right operand.
C26_ValuePreserved ==
    lifted.fn = "assignbinop" =>
        \A i \in 1..Len(lifted.in) :
            lifted.out.file[i] # lifted.in[i] =>
                \A vx, vy \in 0..MaxVal :
                    C26_Exec(lifted.out.file[i], vx, vy) = C26_Exec(lifted.in[i], vx, vy)

\* ---------------------------------------------------------------------- C27
\* C27: assignbinop returns for every file; a single-target plain assignment
\* of a binary expression whose operator has no compound assignment (a
\* comparison, && or ||) is left unchanged and does not end the program.
C27_Returns ==
    lifted.fn = "assignbinop" =>
        /\ pc = "fixed"
        /\ \A i \in 1..Len(lifted.in) :
               (lifted.in[i].rhs[1].e = "binary" /\ lifted.in[i].rhs[1].op \in OtherOps)
                   => lifted.out.file[i] = lifted.in[i]

\* ---------------------------------------------------------------------- C24
\* createIfElsePrim was called and has decoded the branch of A.
C24_Decoded ==
    /\ last.sub = "if_else"
    /\ Range(last.m) = DOMAIN last.members
    /\ GetBrCond(last.members[last.m["A"]].term).err = ""

\* C24: the synthesis of an if_else fails with a branch target error and
\* makes no primitive whenever the decoded true target or the decoded false
\* target is not the node of B or of C, and it does not fail with that error
\* when the two targets are the two body nodes.
C24_TargetsChecked ==
    C24_Decoded =>
        LET br == GetBrCond(last.members[last.m["A"]].term)
            bodies == {last.m["B"], last.m["C"]}
        IN  /\ (br.targetTrue \notin bodies \/ br.targetFalse \notin bodies) =>
                   /\ last.res.err \in {ErrTargetTrue, ErrTargetFalse}
                   /\ last.res.prim = NoPrim
                   /\ last.newName \notin DOMAIN bbs
            /\ {br.targetTrue, br.targetFalse} = bodies =>
                   last.res.err \notin {ErrTargetTrue, ErrTargetFalse}

\* The true target is the node of B, the false target a block of the
\* primitive that is neither B nor C, and the synthesis has failed.
C24_Witness ==
    /\ C24_Decoded
    /\ GetBrCond(last.members[last.m["A"]].term).targetTrue = last.m["B"]
    /\ GetBrCond(last.members[last.m["A"]].term).targetFalse = last.m["D"]
    /\ last.res.err = ErrTargetFalse
    /\ pc = "error"

\* ---------------------------------------------------------------------- C25
RECURSIVE C25_Tree(_)
\* The statements of the blocks in a statement tree, in the order of the
\* text: what is left when the if, for and break statements around them are
\* taken away.
C25_Tree(stmts) ==
    IF stmts = <<>> THEN <<>>
    ELSE LET s == Head(stmts)
         IN  (IF s.k \in {"if", "ifelse", "for"}
              THEN C25_Tree(s.body) \o C25_Tree(s.els)
              ELSE IF s.k = "break" THEN <<>> ELSE <<s>>)
             \o C25_Tree(Tail(stmts))

RECURSIVE C25_SubSeqOf(_, _)
\* Whether the statements of a occur in b in the order of a.
C25_SubSeqOf(a, b) ==
    IF a = <<>> THEN TRUE
    ELSE IF b = <<>> THEN FALSE
    ELSE IF Head(a) = Head(b) THEN C25_SubSeqOf(Tail(a), Tail(b))
    ELSE C25_SubSeqOf(a, Tail(b))

RECURSIVE C25_Total(_, _)
\* The number of statements in the trees of the blocks S of the primitive.
C25_Total(blocks, S) ==
    IF S = {} THEN 0
    ELSE LET n == CHOOSE x \in S : TRUE
         IN  Len(C25_Tree(blocks[n].stmts)) + C25_Total(blocks, S \ {n})

\* The statements of member n that the primitive has to hold: all, but for
\* the entry of a pre_loop the statements left by the expansion.
C25_Kept(n) ==
    IF last.sub = "pre_loop" /\ n = last.m["A"]
    THEN Expand(last.members[n].stmts, BrCondExpr(last.members[n].term).e).stmts
    ELSE last.members[n].stmts

\* C25: in the primitive of every accepted match each statement of each
\* member block occurs exactly once, in the order of its block; only the
\* definition folded into the condition of a pre_loop is missing. The
\* branches of an if_else are built from two different blocks.
C25_EveryStmtOnce ==
    Located =>
        /\ \A n \in Range(last.m) :
               C25_SubSeqOf(C25_Tree(C25_Kept(n)), C25_Tree(last.res.prim.stmts))
        /\ Len(C25_Tree(last.res.prim.stmts))
               = C25_Total([n \in Range(last.m) |-> [stmts |-> C25_Kept(n)]], Range(last.m))
        /\ last.sub = "if_else" =>
               last.members[last.m["A"]].term.t # last.members[last.m["A"]].term.f

\* ---------------------------------------------------------------------- C28
\* An iteration of restructure that fails after a primitive was located.
C28_Fails ==
    /\ pc = "loop"
    /\ pc' = "error"
    /\ last' # last

C29_OrderIndependent ==
    lifted.fn = "phi" =>
        \A q \in PhiOrders(lifted.in.phis) :
            \A p \in DOMAIN bbs :
                PhisLoop(lifted.in.bbs, q, 1)[p].stmts = bbs[p].stmts

\* ---------------------------------------------------------------------- C30
\* C30: restructure returns a function body only when exactly one block is
\* left in the block map after the located primitives have been applied; with
\* two or more blocks left it returns an error, never the statements of one
\* of the remaining blocks.
C30_BodyOfOnlyBlock ==
    pc = "done" => Cardinality(DOMAIN bbs) = 1

====
